---- MODULE Spec2Model ----
(***************************************************************************)
(* Model of src/jsonToBatchUpdateRequest.ts: the compiler that turns a     *)
(* Google Docs document JSON into the ordered request list of a            *)
(* documents.batchUpdate call, and its in-file section-break handler.      *)
(*                                                                         *)
(* JavaScript values are represented as follows.                           *)
(*   - an optional number (startIndex) is a set with at most one element:  *)
(*     {} is "absent/undefined", {n} is the number n;                      *)
(*   - an object with optional keys (sectionStyle) is the sequence of its  *)
(*     <<key, value>> pairs in the object's own key order;                 *)
(*   - undefined in a string-valued position is the string "undefined";    *)
(*   - null and undefined as list entries or slot values are the records   *)
(*     Null and Undefined.                                                 *)
(* The paragraph and table handlers are external: whether one throws for   *)
(* an element, and what it returns otherwise, is part of that element's    *)
(* payload, so a handler's result is a function of the element it is       *)
(* given.  The value a handler throws is any JavaScript value: an Error    *)
(* instance or not.                                                        *)
(***************************************************************************)
EXTENDS Integers, Sequences, FiniteSets, TLC

\* Bounds of the model.
MaxLen == 3
MaxRequests == 1

VARIABLES docJSON, source, pc, i, requests,
          newLineStyleUpdatesForAfterTableInsertion,
          result, logged, call, firstResult

vars == <<docJSON, source, pc, i, requests,
          newLineStyleUpdatesForAfterTableInsertion,
          result, logged, call, firstResult>>

Null == [js |-> "null"]
Undefined == [js |-> "undefined"]

-----------------------------------------------------------------------------
\* Objects with optional keys.

RECURSIVE deleteKey(_, _)
deleteKey(obj, key) ==
  IF obj = <<>> THEN <<>>
  ELSE IF Head(obj)[1] = key THEN deleteKey(Tail(obj), key)
  ELSE <<Head(obj)>> \o deleteKey(Tail(obj), key)

RECURSIVE getKey(_, _)
getKey(obj, key) ==
  IF obj = <<>> THEN "undefined"
  ELSE IF Head(obj)[1] = key THEN Head(obj)[2]
  ELSE getKey(Tail(obj), key)

RECURSIVE getStylingFieldMask(_)
getStylingFieldMask(style) ==
  IF style = <<>> THEN <<>>
  ELSE IF Head(style)[2] = "undefined" THEN getStylingFieldMask(Tail(style))
  ELSE <<Head(style)[1]>> \o getStylingFieldMask(Tail(style))

-----------------------------------------------------------------------------
\* Setup emitters and the fixed prefix.

changePageDimensions(size) ==
  [op |-> "updateDocumentStyle", what |-> "pageSize",
   height |-> size.height, width |-> size.width]

changePageMargins(margins) ==
  [op |-> "updateDocumentStyle", what |-> "margins", margins |-> margins]

changePageOrientation(flag) ==
  [op |-> "updateDocumentStyle", what |-> "flipPageOrientation", flag |-> flag]

shrinkOriginalNewLine ==
  << [op |-> "updateTextStyle",
      textStyle |-> [fontSize |-> [magnitude |-> 1, unit |-> "PT"]],
      fields |-> "fontSize",
      range |-> [startIndex |-> 1, endIndex |-> 2, segmentId |-> ""]],
     [op |-> "updateParagraphStyle",
      paragraphStyle |-> [lineSpacing |-> "0.06",
                          spaceAbove |-> [magnitude |-> 0, unit |-> "PT"],
                          spaceBelow |-> [magnitude |-> 0, unit |-> "PT"]],
      fields |-> "lineSpacing,spaceAbove,spaceBelow",
      range |-> [startIndex |-> 1, endIndex |-> 2, segmentId |-> ""]] >>

changePageSizeReq(doc) ==
  changePageDimensions([height |-> doc.documentStyle.pageSize.height,
                        width |-> doc.documentStyle.pageSize.width])

changePageMarginsReq(doc) ==
  changePageMargins(doc.documentStyle.margins)

flipOrientationReq(doc) ==
  changePageOrientation(doc.documentStyle.flipPageOrientation)

SetupRequests_marginsBeforeOrientation(doc) ==
  shrinkOriginalNewLine
    \o <<changePageSizeReq(doc), changePageMarginsReq(doc), flipOrientationReq(doc)>>

SetupRequests(doc) ==
  shrinkOriginalNewLine
    \o <<changePageSizeReq(doc), flipOrientationReq(doc), changePageMarginsReq(doc)>>

-----------------------------------------------------------------------------
\* External handlers.

findStructuralElementType(el) ==
  IF el.kind \in {"paragraph", "sectionBreak", "table"} THEN el.kind ELSE "other"

\* The k-th request the paragraph handler returns for the paragraph that
\* starts at paragraphStartIndex.
paragraphRequest(paragraphStartIndex, k) ==
  [op |-> "paragraphRequest", paragraphStartIndex |-> paragraphStartIndex, k |-> k]

newlineStyleRequest(paragraphStartIndex) ==
  [op |-> "newlineStyleBeforeTable", paragraphStartIndex |-> paragraphStartIndex]

tableRequest(tableStartIndex, k) ==
  [op |-> "tableRequest", tableStartIndex |-> tableStartIndex, k |-> k]

handleParagraph(el) ==
  [thrown |-> el.payload.throws,
   insertParagraphElementRequests |->
     [k \in 1..el.payload.n |-> paragraphRequest(el.startIndex, k)],
   stylesForNewlineBeforeTable |->
     CASE el.payload.newline = "null" -> Null
       [] el.payload.newline = "undefined" -> Undefined
       [] OTHER -> newlineStyleRequest(el.startIndex)]

handleTable(el) ==
  [thrown |-> el.payload.throws,
   requests |-> [k \in 1..el.payload.n |-> tableRequest(el.startIndex, k)]]

-----------------------------------------------------------------------------
\* Section breaks.

\* startIndex ?? 0
resolveStartIndex(sectionBreakStartIndex) ==
  IF sectionBreakStartIndex = {} THEN 0
  ELSE CHOOSE n \in sectionBreakStartIndex : TRUE

\* The section style object after `delete sectionBreakStyle.sectionType`;
\* the object is the one the document holds, not a copy.
strippedSectionStyle(sectionStyle) == deleteKey(sectionStyle, "sectionType")

updateSectionBreakRequest(sectionStyle, startIndex, endIndex) ==
  [op |-> "updateSectionStyle",
   sectionStyle |-> sectionStyle,
   range |-> [startIndex |-> startIndex, endIndex |-> endIndex, segmentId |-> ""],
   fields |-> getStylingFieldMask(sectionStyle)]

\* The sectionType of the insertion in the non-zero branch, read from the
\* document's section style as it is when the branch runs.
insertedSectionType(sectionStyleNow) ==
  IF getKey(sectionStyleNow, "sectionType") = "SECTION_TYPE_UNSPECIFIED"
  THEN "CONTINUOUS"
  ELSE getKey(sectionStyleNow, "sectionType")

insertSectionBreakRequest_alwaysLocation(startIndex, sectionStyleNow) ==
  [op |-> "insertSectionBreak",
   sectionType |-> insertedSectionType(sectionStyleNow),
   addressing |-> "location", segmentId |-> "", index |-> {startIndex}]

insertSectionBreakRequest(startIndex, sectionStyleNow) ==
  IF startIndex = 0
  THEN [op |-> "insertSectionBreak",
        sectionType |-> "CONTINUOUS",
        addressing |-> "endOfSegmentLocation", segmentId |-> "", index |-> {}]
  ELSE [op |-> "insertSectionBreak",
        sectionType |-> insertedSectionType(sectionStyleNow),
        addressing |-> "location", segmentId |-> "", index |-> {startIndex}]

\* handleSectionBreak with the insertion's type read before the delete.
handleSectionBreak_readBeforeDelete(sectionStyle, sectionBreakStartIndex, sectionBreakEndIndex) ==
  LET startIndex == resolveStartIndex(sectionBreakStartIndex)
      endIndex == sectionBreakEndIndex
      sectionBreakStyle == strippedSectionStyle(sectionStyle)
  IN [requests |->
        <<insertSectionBreakRequest(startIndex, sectionStyle),
          updateSectionBreakRequest(sectionBreakStyle, startIndex, endIndex)>>,
      sectionStyle |-> sectionBreakStyle]

\* What handleSectionBreak returns, and the section style it leaves in the
\* document.
handleSectionBreak(sectionStyle, sectionBreakStartIndex, sectionBreakEndIndex) ==
  LET startIndex == resolveStartIndex(sectionBreakStartIndex)
      endIndex == sectionBreakEndIndex
      sectionBreakStyle == strippedSectionStyle(sectionStyle)
  IN [requests |->
        <<insertSectionBreakRequest(startIndex, sectionBreakStyle),
          updateSectionBreakRequest(sectionBreakStyle, startIndex, endIndex)>>,
      sectionStyle |-> sectionBreakStyle]

-----------------------------------------------------------------------------
\* The cases of the switch over the element type.  Each takes the request
\* list and the pending-newline slot as they are when the case is entered
\* and gives them as they are at its break.

\* paragraphCase that puts the paragraph's requests at the front of the list.
paragraphCase_unshift(reqs, slot, response) ==
  [requests |-> response.insertParagraphElementRequests \o reqs,
   slot |-> response.stylesForNewlineBeforeTable]

\* paragraphCase that keeps an outstanding slot value.
paragraphCase_keepOutstanding(reqs, slot, response) ==
  [requests |-> reqs \o response.insertParagraphElementRequests,
   slot |-> IF slot # Null THEN slot ELSE response.stylesForNewlineBeforeTable]

paragraphCase(reqs, slot, response) ==
  [requests |-> reqs \o response.insertParagraphElementRequests,
   slot |-> response.stylesForNewlineBeforeTable]

\* sectionBreakCase that resets the slot.
sectionBreakCase_clearsSlot(reqs, slot, sectionBreakInsertionRequest) ==
  [requests |-> reqs \o sectionBreakInsertionRequest, slot |-> Null]

sectionBreakCase(reqs, slot, sectionBreakInsertionRequest) ==
  [requests |-> reqs \o sectionBreakInsertionRequest, slot |-> slot]

\* tableCase with the pending request pushed before the table's requests.
tableCase_pendingFirst(reqs, slot, tableInsertionRequest) ==
  IF slot # Null
  THEN [requests |-> Append(reqs, slot) \o tableInsertionRequest, slot |-> Null]
  ELSE [requests |-> reqs \o tableInsertionRequest, slot |-> slot]

\* tableCase that resets the slot without pushing its value.
tableCase_dropsPending(reqs, slot, tableInsertionRequest) ==
  [requests |-> reqs \o tableInsertionRequest, slot |-> Null]

\* tableCase without the reset of the slot.
tableCase_keepSlot(reqs, slot, tableInsertionRequest) ==
  IF slot # Null
  THEN [requests |-> Append(reqs \o tableInsertionRequest, slot), slot |-> slot]
  ELSE [requests |-> reqs \o tableInsertionRequest, slot |-> slot]

tableCase(reqs, slot, tableInsertionRequest) ==
  IF slot # Null
  THEN [requests |-> Append(reqs \o tableInsertionRequest, slot), slot |-> Null]
  ELSE [requests |-> reqs \o tableInsertionRequest, slot |-> slot]

\* noCase that resets the slot.
noCase_clearsSlot(reqs, slot) ==
  [requests |-> reqs, slot |-> Null]

\* No case matches: the switch falls through to the end of the loop body.
noCase(reqs, slot) ==
  [requests |-> reqs, slot |-> slot]

\* The catch block: what console.error is called with, as a count, and the
\* value the function then returns.
consoleErrors(err) == IF err = "Error" THEN 1 ELSE 0

\* A catch block that hands back what was accumulated.
returnedFromCatch_partial(reqs) == [kind |-> "requests", value |-> reqs]

returnedFromCatch(reqs) == [kind |-> "undefined", value |-> <<>>]

returnedFromTry(reqs) == [kind |-> "requests", value |-> reqs]

-----------------------------------------------------------------------------
\* Documents.

SectionStyles ==
  { << <<"sectionType", "SECTION_TYPE_UNSPECIFIED">> >>,
    << <<"contentDirection", "LEFT_TO_RIGHT">>, <<"sectionType", "NEXT_PAGE">> >>,
    << <<"columnSeparatorStyle", "NONE">>, <<"contentDirection", "undefined">> >> }

\* The values a throw can carry, as far as the catch block tells them apart.
Throws == {"Error", "nonError"}

\* A paragraph handler returns at least the insertion of the paragraph's
\* text; a table handler may return an empty list.
ParagraphPayloads ==
  [throws : {FALSE}, n : 1..MaxRequests, newline : {"null", "undefined", "request"}]
    \cup [throws : {TRUE}, n : {1}, newline : {"null"}]

TablePayloads ==
  [throws : {FALSE}, n : 0..MaxRequests] \cup [throws : {TRUE}, n : {0}]

\* An element without its indices.
Shapes ==
  [kind : {"paragraph"}, payload : ParagraphPayloads]
  \cup [kind : {"table"}, payload : TablePayloads]
  \cup [kind : {"sectionBreak"}, payload : [sectionStyle : SectionStyles]]
  \cup [kind : {"tableOfContents"}, payload : [content : {<<>>}]]

\* The start index of the first element is 0, which the API omits; a first
\* section break is also taken with the 0 written out, the case its
\* handler tells apart.
FirstStartIndexes(shapes) ==
  IF shapes # <<>> /\ shapes[1].kind = "sectionBreak" THEN {{}, {0}} ELSE {{}}

\* The element at position p of the content starts where the one before it
\* ends.
ElementAt(shape, p, first) ==
  [kind |-> shape.kind,
   startIndex |-> IF p = 1 THEN first ELSE {p - 1},
   endIndex |-> p,
   payload |-> shape.payload]

DocumentStyles ==
  { [pageSize |-> [width |-> 612, height |-> 792],
     margins |-> [marginTop |-> "undefined", marginBottom |-> "undefined",
                  marginRight |-> "undefined", marginLeft |-> "undefined"],
     flipPageOrientation |-> TRUE] }

Document(shapes, first, style) ==
  [body |-> [present |-> TRUE, hasContent |-> TRUE,
             content |-> [p \in 1..Len(shapes) |-> ElementAt(shapes[p], p, first)]],
   documentStyle |-> style]

\* Documents without a body, or with a body without content.
MalformedDocuments ==
  [body : { [present |-> FALSE, hasContent |-> FALSE, content |-> <<>>],
            [present |-> TRUE, hasContent |-> FALSE, content |-> <<>>] },
   documentStyle : DocumentStyles]

-----------------------------------------------------------------------------
\* The compilation as a state machine: pc is the position in
\* jsonToBatchUpdateRequest, i the loop index (the number of elements
\* already processed), call the number of the call on this document.

NoResult == [kind |-> "none", value |-> <<>>]

content == docJSON.body.content

structuralElement == content[i + 1]

Init ==
  /\ \/ docJSON \in MalformedDocuments
     \/ \E n \in 0..MaxLen : \E shapes \in [1..n -> Shapes] :
          \E first \in FirstStartIndexes(shapes) : \E style \in DocumentStyles :
            docJSON = Document(shapes, first, style)
  /\ source = docJSON
  /\ pc = "start"
  /\ i = 0
  /\ requests = <<>>
  /\ newLineStyleUpdatesForAfterTableInsertion = Null
  /\ result = NoResult
  /\ logged = 0
  /\ call = 1
  /\ firstResult = NoResult

\* A fault reaches the catch block.
Catch(err) ==
  /\ pc' = "done"
  /\ logged' = logged + consoleErrors(err)
  /\ result' = returnedFromCatch(requests)
  /\ UNCHANGED <<i, requests, newLineStyleUpdatesForAfterTableInsertion>>

\* Lines 26-93: reading the document and building the fixed prefix.  An
\* absent body faults at line 27, absent content at the loop condition.
Enter ==
  /\ pc = "start"
  /\ IF docJSON.body.present /\ docJSON.body.hasContent
     THEN /\ requests' = SetupRequests(docJSON)
          /\ newLineStyleUpdatesForAfterTableInsertion' = Null
          /\ i' = 0
          /\ pc' = "loop"
          /\ UNCHANGED <<result, logged>>
     ELSE Catch("Error")
  /\ UNCHANGED <<docJSON, source, call, firstResult>>

InLoop(kind) ==
  /\ pc = "loop"
  /\ i < Len(content)
  /\ findStructuralElementType(structuralElement) = kind

Continue(st) ==
  /\ requests' = st.requests
  /\ newLineStyleUpdatesForAfterTableInsertion' = st.slot
  /\ i' = i + 1
  /\ UNCHANGED <<pc, result, logged>>

Paragraph ==
  /\ InLoop("paragraph")
  /\ LET response == handleParagraph(structuralElement)
     IN IF ~response.thrown
        THEN Continue(paragraphCase(requests,
                        newLineStyleUpdatesForAfterTableInsertion, response))
        ELSE \E err \in Throws : Catch(err)
  /\ UNCHANGED <<docJSON, source, call, firstResult>>

SectionBreak ==
  /\ InLoop("sectionBreak")
  /\ LET handled == handleSectionBreak(structuralElement.payload.sectionStyle,
                                       structuralElement.startIndex,
                                       structuralElement.endIndex)
     IN /\ docJSON' = [docJSON EXCEPT
                         !.body.content[i + 1].payload.sectionStyle =
                            handled.sectionStyle]
        /\ Continue(sectionBreakCase(requests,
                      newLineStyleUpdatesForAfterTableInsertion, handled.requests))
  /\ UNCHANGED <<source, call, firstResult>>

Table ==
  /\ InLoop("table")
  /\ LET response == handleTable(structuralElement)
     IN IF ~response.thrown
        THEN Continue(tableCase(requests,
                        newLineStyleUpdatesForAfterTableInsertion, response.requests))
        ELSE \E err \in Throws : Catch(err)
  /\ UNCHANGED <<docJSON, source, call, firstResult>>

Skip ==
  /\ InLoop("other")
  /\ Continue(noCase(requests, newLineStyleUpdatesForAfterTableInsertion))
  /\ UNCHANGED <<docJSON, source, call, firstResult>>

\* Line 151.
Return ==
  /\ pc = "loop"
  /\ i = Len(content)
  /\ pc' = "done"
  /\ result' = returnedFromTry(requests)
  /\ UNCHANGED <<docJSON, source, i, requests,
                 newLineStyleUpdatesForAfterTableInsertion, logged, call, firstResult>>

\* The caller compiles the same document value again, as the first call
\* left it.
Recompile ==
  /\ pc = "done"
  /\ call = 1
  /\ call' = 2
  /\ firstResult' = result
  /\ pc' = "start"
  /\ i' = 0
  /\ requests' = <<>>
  /\ newLineStyleUpdatesForAfterTableInsertion' = Null
  /\ result' = NoResult
  /\ logged' = 0
  /\ UNCHANGED <<docJSON, source>>

Next ==
  \/ Enter
  \/ Paragraph
  \/ SectionBreak
  \/ Table
  \/ Skip
  \/ Return
  \/ Recompile

Spec == Init /\ [][Next]_vars

-----------------------------------------------------------------------------
\* The compilation as a function of the document: the value one call
\* returns.

RECURSIVE forLoop(_, _, _, _)
forLoop(elements, j, reqs, slot) ==
  IF j = Len(elements) THEN returnedFromTry(reqs)
  ELSE LET el == elements[j + 1]
           type == findStructuralElementType(el)
       IN CASE type = "paragraph" ->
                 LET response == handleParagraph(el)
                     st == paragraphCase(reqs, slot, response)
                 IN IF ~response.thrown
                    THEN forLoop(elements, j + 1, st.requests, st.slot)
                    ELSE returnedFromCatch(reqs)
            [] type = "sectionBreak" ->
                 LET handled == handleSectionBreak(el.payload.sectionStyle,
                                                   el.startIndex, el.endIndex)
                     st == sectionBreakCase(reqs, slot, handled.requests)
                 IN forLoop(elements, j + 1, st.requests, st.slot)
            [] type = "table" ->
                 LET response == handleTable(el)
                     st == tableCase(reqs, slot, response.requests)
                 IN IF ~response.thrown
                    THEN forLoop(elements, j + 1, st.requests, st.slot)
                    ELSE returnedFromCatch(reqs)
            [] OTHER ->
                 LET st == noCase(reqs, slot)
                 IN forLoop(elements, j + 1, st.requests, st.slot)

jsonToBatchUpdateRequest(doc) ==
  IF doc.body.present /\ doc.body.hasContent
  THEN forLoop(doc.body.content, 0, SetupRequests(doc), Null)
  ELSE returnedFromCatch(<<>>)

-----------------------------------------------------------------------------
\* Vocabulary of the properties.

sourceContent == source.body.content

WellFormed(doc) == doc.body.present /\ doc.body.hasContent

IsParagraph(el) == el.kind = "paragraph"
IsTable(el) == el.kind = "table"
IsSectionBreak(el) == el.kind = "sectionBreak"
IsOther(el) == el.kind \notin {"paragraph", "sectionBreak", "table"}

HandlerThrows(el) ==
  (IsParagraph(el) \/ IsTable(el)) /\ el.payload.throws

ReturnsNewlineRequest(el) ==
  IsParagraph(el) /\ ~el.payload.throws /\ el.payload.newline = "request"

Returned == pc = "done" /\ result.kind = "requests"

Aborted == pc = "done" /\ result.kind = "undefined"

\* The positions of request r in a list.
Positions(list, r) == {k \in 1..Len(list) : list[k] = r}

Keys(obj) == {obj[k][1] : k \in 1..Len(obj)}

SeqToSet(seq) == {seq[k] : k \in 1..Len(seq)}

-----------------------------------------------------------------------------
\* C1.  In a document whose content is [Paragraph P, Table T], P's handler
\* returning a pending-newline request: once T has been processed the slot
\* is null, and in the request list every request of T's handler comes
\* before the pending request, which directly follows T's last request.

ParagraphThenTable ==
  /\ WellFormed(source)
  /\ Len(sourceContent) = 2
  /\ ReturnsNewlineRequest(sourceContent[1])
  /\ IsTable(sourceContent[2])
  /\ ~HandlerThrows(sourceContent[2])

PendingPlacedAfterTable(list) ==
  LET pending == newlineStyleRequest(sourceContent[1].startIndex)
      tableRequests == handleTable(sourceContent[2]).requests
  IN \E k \in 1..Len(list) :
       /\ list[k] = pending
       /\ \A t \in 1..Len(tableRequests) :
            \E m \in 1..(k - 1) : list[m] = tableRequests[t]
       /\ Len(tableRequests) > 0 =>
            k > 1 /\ list[k - 1] = tableRequests[Len(tableRequests)]

C1_PendingAfterTable ==
  ParagraphThenTable =>
    /\ (pc = "loop" /\ i = 2) =>
         /\ newLineStyleUpdatesForAfterTableInsertion = Null
         /\ PendingPlacedAfterTable(requests)
    /\ Returned => PendingPlacedAfterTable(result.value)

C1_Witness ==
  /\ ParagraphThenTable
  /\ sourceContent[2].payload.n > 0
  /\ Returned
  /\ call = 1

-----------------------------------------------------------------------------
\* C2.  For every processed section break with a non-zero start index whose
\* section style has sectionType SECTION_TYPE_UNSPECIFIED, the request list
\* holds the InsertSectionBreak at that index with sectionType CONTINUOUS.

UnspecifiedAtNonZero(el) ==
  /\ IsSectionBreak(el)
  /\ resolveStartIndex(el.startIndex) # 0
  /\ getKey(el.payload.sectionStyle, "sectionType") = "SECTION_TYPE_UNSPECIFIED"

C2_UnspecifiedBecomesContinuous ==
  (call = 1 /\ pc \in {"loop", "done"}) =>
    \A j \in 1..i :
      UnspecifiedAtNonZero(sourceContent[j]) =>
        \E k \in 1..Len(requests) :
          /\ requests[k].op = "insertSectionBreak"
          /\ requests[k].index = sourceContent[j].startIndex
          /\ requests[k].sectionType = "CONTINUOUS"

-----------------------------------------------------------------------------
\* C3.  A step that processes a section break whose start index is absent
\* or 0 appends exactly two requests: an InsertSectionBreak of type
\* CONTINUOUS at the end of the root segment, without an index, then an
\* UpdateSectionStyle over the range 0..endIndex of the root segment whose
\* field mask and style payload do not contain sectionType.

AtBootstrapSectionBreak ==
  /\ pc = "loop"
  /\ i < Len(content)
  /\ IsSectionBreak(structuralElement)
  /\ structuralElement.startIndex \in {{}, {0}}

C3_BootstrapStep ==
  (AtBootstrapSectionBreak /\ i' = i + 1) =>
    LET before == Len(requests)
        endIndex == structuralElement.endIndex
    IN /\ Len(requests') = before + 2
       /\ SubSeq(requests', 1, before) = requests
       /\ requests'[before + 1] =
            [op |-> "insertSectionBreak", sectionType |-> "CONTINUOUS",
             addressing |-> "endOfSegmentLocation", segmentId |-> "",
             index |-> {}]
       /\ requests'[before + 2].op = "updateSectionStyle"
       /\ requests'[before + 2].range =
            [startIndex |-> 0, endIndex |-> endIndex, segmentId |-> ""]
       /\ "sectionType" \notin SeqToSet(requests'[before + 2].fields)
       /\ "sectionType" \notin Keys(requests'[before + 2].sectionStyle)

C3_BootstrapSectionBreak == [][C3_BootstrapStep]_vars

C3_Witness ==
  /\ pc = "loop"
  /\ i = 1
  /\ call = 1
  /\ IsSectionBreak(sourceContent[1])
  /\ sourceContent[1].startIndex = {}
  /\ "sectionType" \in Keys(sourceContent[1].payload.sectionStyle)
  /\ Len(requests) = 7

-----------------------------------------------------------------------------
\* C4.  When a call has returned, the document has the value it had before
\* the call.

C4_SourceNotMutated ==
  (pc = "done" /\ call = 1) => docJSON = source

-----------------------------------------------------------------------------
\* C5.  A returned list starts with the five setup requests in their fixed
\* order (text style and paragraph style of range 1..2 of the root segment,
\* page size, orientation, margins), no later request is one of them, and
\* for an empty content the list is these five.

IsShrinkText(r) ==
  /\ r.op = "updateTextStyle"
  /\ r.range = [startIndex |-> 1, endIndex |-> 2, segmentId |-> ""]

IsShrinkParagraph(r) ==
  /\ r.op = "updateParagraphStyle"
  /\ r.range = [startIndex |-> 1, endIndex |-> 2, segmentId |-> ""]

IsDocumentStyle(r, what) ==
  r.op = "updateDocumentStyle" /\ r.what = what

C5_FixedPrefix ==
  Returned =>
    /\ Len(result.value) >= 5
    /\ IsShrinkText(result.value[1])
    /\ IsShrinkParagraph(result.value[2])
    /\ IsDocumentStyle(result.value[3], "pageSize")
    /\ IsDocumentStyle(result.value[4], "flipPageOrientation")
    /\ IsDocumentStyle(result.value[5], "margins")
    /\ \A k \in 6..Len(result.value) :
         result.value[k] \in {Undefined}
           \/ result.value[k].op \in
                {"paragraphRequest", "newlineStyleBeforeTable", "tableRequest",
                 "insertSectionBreak", "updateSectionStyle"}
    /\ sourceContent = <<>> => Len(result.value) = 5

C5_Witness ==
  /\ Returned
  /\ call = 1
  /\ Len(result.value) > 5
  /\ IsParagraph(sourceContent[1])

-----------------------------------------------------------------------------
\* C6.  A call on a document in which a fault occurs (body or content
\* absent, or an element whose paragraph or table handler throws) ends with
\* no result: it never returns the requests accumulated before the fault.

Faults(doc) ==
  \/ ~WellFormed(doc)
  \/ \E j \in 1..Len(doc.body.content) : HandlerThrows(doc.body.content[j])

C6_NoPartialResult ==
  (pc = "done" /\ Faults(source)) =>
    /\ result.kind = "undefined"
    /\ result.value = <<>>

C6_Witness ==
  /\ pc = "done"
  /\ call = 1
  /\ Faults(source)
  /\ i = 2
  /\ Len(requests) > 5
  /\ result.kind = "undefined"

-----------------------------------------------------------------------------
\* C7.  A call that aborts has logged exactly one fault and a call that
\* returns a list has logged none.

C7_OneLogPerFault ==
  /\ Aborted => logged = 1
  /\ Returned => logged = 0

-----------------------------------------------------------------------------
\* C8.  Each pending-newline request a paragraph handler returns occurs at
\* most once in the request list, at every point of the pass and in the
\* returned list.

C8_PendingAtMostOnce ==
  (WellFormed(source) /\ pc \in {"loop", "done"}) =>
    \A j \in 1..Len(sourceContent) :
      ReturnsNewlineRequest(sourceContent[j]) =>
        LET pending == newlineStyleRequest(sourceContent[j].startIndex)
        IN /\ Cardinality(Positions(requests, pending)) <= 1
           /\ Cardinality(Positions(result.value, pending)) <= 1

C8_Witness ==
  /\ Returned
  /\ call = 1
  /\ Len(sourceContent) = 3
  /\ ReturnsNewlineRequest(sourceContent[1])
  /\ IsTable(sourceContent[2])
  /\ IsTable(sourceContent[3])
  /\ Cardinality(Positions(result.value,
                           newlineStyleRequest(sourceContent[1].startIndex))) = 1

-----------------------------------------------------------------------------
\* C9.  Elements that are neither paragraph, section break nor table are
\* skipped: a call ends as the call on the same document without these
\* elements ends, with the same returned list or the same absence of one.

RECURSIVE WithoutOther(_)
WithoutOther(elements) ==
  IF elements = <<>> THEN <<>>
  ELSE IF IsOther(Head(elements)) THEN WithoutOther(Tail(elements))
  ELSE <<Head(elements)>> \o WithoutOther(Tail(elements))

-----------------------------------------------------------------------------
\* C10.  The second call on a document, as the first call left it, ends
\* with the same result as the first.

C10_Idempotent ==
  (pc = "done" /\ call = 2) => result = firstResult

C10_Witness ==
  /\ Returned
  /\ call = 2
  /\ \E j \in 1..Len(sourceContent) :
       /\ IsSectionBreak(sourceContent[j])
       /\ resolveStartIndex(sourceContent[j].startIndex) # 0
       /\ getKey(sourceContent[j].payload.sectionStyle, "sectionType") = "NEXT_PAGE"
  /\ docJSON # source

-----------------------------------------------------------------------------
\* Vocabulary of the properties about the pending-newline slot.

pendingOf(j) == newlineStyleRequest(sourceContent[j].startIndex)

\* The paragraph's handler returns a value for the slot other than null.
ReportsNonNull(el) ==
  IsParagraph(el) /\ ~el.payload.throws /\ el.payload.newline # "null"

\* Among the elements j+1..upto a table comes before any paragraph.
TableBeforeNextParagraph(j, upto) ==
  \E t \in (j + 1)..upto :
    /\ IsTable(sourceContent[t])
    /\ \A m \in (j + 1)..(t - 1) : ~IsParagraph(sourceContent[m])

ParagraphsUpTo(upto) == {j \in 1..upto : IsParagraph(sourceContent[j])}

Max(S) == CHOOSE x \in S : \A y \in S : y <= x

\* The slot is null after the elements 1..upto: none of them is a
\* paragraph, or the last paragraph reported null, or a table follows it.
DrainedAfter(upto) ==
  \/ ParagraphsUpTo(upto) = {}
  \/ LET last == Max(ParagraphsUpTo(upto))
     IN \/ ~ReportsNonNull(sourceContent[last])
        \/ TableBeforeNextParagraph(last, upto)

-----------------------------------------------------------------------------
\* C11 as claimed.  When a call returns a list the slot is null and every
\* pending-newline request a paragraph handler returned is in the list.

C11_AlwaysDrained ==
  Returned =>
    /\ newLineStyleUpdatesForAfterTableInsertion = Null
    /\ \A j \in 1..Len(sourceContent) :
         ReturnsNewlineRequest(sourceContent[j]) =>
           pendingOf(j) \in SeqToSet(result.value)

\* C11 as amended.  When a call returns a list, the slot is null exactly
\* when the content has no paragraph, or its last paragraph reported null,
\* or a table follows its last paragraph; and a pending-newline request a
\* paragraph handler returned is in the list exactly when a table follows
\* that paragraph before the next paragraph.

C11_DrainedWhenTableFollows ==
  Returned =>
    /\ (newLineStyleUpdatesForAfterTableInsertion = Null)
         <=> DrainedAfter(Len(sourceContent))
    /\ \A j \in 1..Len(sourceContent) :
         ReturnsNewlineRequest(sourceContent[j]) =>
           (pendingOf(j) \in SeqToSet(result.value)
              <=> TableBeforeNextParagraph(j, Len(sourceContent)))

C11_Witness ==
  /\ Returned
  /\ call = 1
  /\ Len(sourceContent) = 3
  /\ ReturnsNewlineRequest(sourceContent[1])
  /\ IsTable(sourceContent[2])
  /\ ReturnsNewlineRequest(sourceContent[3])
  /\ newLineStyleUpdatesForAfterTableInsertion = pendingOf(3)
  /\ pendingOf(1) \in SeqToSet(result.value)

-----------------------------------------------------------------------------
\* C12 as claimed.  A pending-newline request of the paragraph at position
\* j is in the request list only if the element at position j+1 is a table.

C12_OnlyImmediateSuccessor ==
  (WellFormed(source) /\ pc \in {"loop", "done"}) =>
    \A j \in 1..Len(sourceContent) :
      (/\ ReturnsNewlineRequest(sourceContent[j])
       /\ pendingOf(j) \in SeqToSet(requests)) =>
        /\ j + 1 <= Len(sourceContent)
        /\ IsTable(sourceContent[j + 1])

\* C12 as amended.  A pending-newline request of the paragraph at position
\* j is in the request list only if, among the elements processed after j,
\* a table comes before any paragraph; it is then directly behind the
\* requests of the first such table, section breaks and other elements in
\* between notwithstanding.

FirstTableAfter(j) ==
  CHOOSE t \in (j + 1)..Len(sourceContent) :
    /\ IsTable(sourceContent[t])
    /\ \A m \in (j + 1)..(t - 1) : ~IsTable(sourceContent[m])

DirectlyBehindTable(list, k, t) ==
  LET tableRequests == handleTable(sourceContent[t]).requests
      n == Len(tableRequests)
  IN /\ k > n
     /\ SubSeq(list, k - n, k - 1) = tableRequests
     /\ \A m \in 1..(k - n - 1) :
          list[m] \in {Undefined} \/ list[m].op # "tableRequest"
            \/ list[m].tableStartIndex # sourceContent[t].startIndex

C12_OnlyNextTable ==
  (WellFormed(source) /\ pc \in {"loop", "done"}) =>
    \A j \in 1..Len(sourceContent) :
      \A k \in 1..Len(requests) :
        (ReturnsNewlineRequest(sourceContent[j]) /\ requests[k] = pendingOf(j)) =>
          /\ TableBeforeNextParagraph(j, i)
          /\ DirectlyBehindTable(requests, k, FirstTableAfter(j))

C12_Witness ==
  /\ Returned
  /\ call = 1
  /\ Len(sourceContent) = 3
  /\ ReturnsNewlineRequest(sourceContent[1])
  /\ IsSectionBreak(sourceContent[2])
  /\ IsTable(sourceContent[3])
  /\ sourceContent[3].payload.n > 0
  /\ result.value[Len(result.value)] = pendingOf(1)

-----------------------------------------------------------------------------
\* C13.  For every processed section break with a non-zero start index whose
\* section style has a sectionType other than SECTION_TYPE_UNSPECIFIED, the
\* request list holds, one behind the other, the InsertSectionBreak with
\* that sectionType at Location{root segment, start index} and the
\* UpdateSectionStyle over the range start index..end index.

SpecifiedAtNonZero(el) ==
  /\ IsSectionBreak(el)
  /\ resolveStartIndex(el.startIndex) # 0
  /\ getKey(el.payload.sectionStyle, "sectionType")
       \notin {"undefined", "SECTION_TYPE_UNSPECIFIED"}

C13_OwnSectionType ==
  (call = 1 /\ pc \in {"loop", "done"}) =>
    \A j \in 1..i :
      SpecifiedAtNonZero(sourceContent[j]) =>
        \E k \in 1..(Len(requests) - 1) :
          /\ requests[k] =
               [op |-> "insertSectionBreak",
                sectionType |->
                  getKey(sourceContent[j].payload.sectionStyle, "sectionType"),
                addressing |-> "location", segmentId |-> "",
                index |-> sourceContent[j].startIndex]
          /\ requests[k + 1] # Undefined
          /\ requests[k + 1].op = "updateSectionStyle"
          /\ requests[k + 1].range =
               [startIndex |-> resolveStartIndex(sourceContent[j].startIndex),
                endIndex |-> sourceContent[j].endIndex, segmentId |-> ""]

-----------------------------------------------------------------------------
\* The requests the handler of the element at position j returns.

Block(j) ==
  LET el == sourceContent[j]
      type == findStructuralElementType(el)
  IN CASE type = "paragraph" -> handleParagraph(el).insertParagraphElementRequests
       [] type = "sectionBreak" ->
            handleSectionBreak(el.payload.sectionStyle, el.startIndex,
                               el.endIndex).requests
       [] type = "table" -> handleTable(el).requests
       [] OTHER -> <<>>

RECURSIVE Blocks(_)
Blocks(upto) == IF upto = 0 THEN <<>> ELSE Blocks(upto - 1) \o Block(upto)

\* An entry that went through the pending-newline slot.
FromSlot(r) ==
  r \in {Null, Undefined} \/ r.op = "newlineStyleBeforeTable"

RECURSIVE WithoutSlotEntries(_)
WithoutSlotEntries(list) ==
  IF list = <<>> THEN <<>>
  ELSE IF FromSlot(Head(list)) THEN WithoutSlotEntries(Tail(list))
  ELSE <<Head(list)>> \o WithoutSlotEntries(Tail(list))

IsBlockAt(list, k, block) ==
  /\ k + Len(block) - 1 <= Len(list)
  /\ SubSeq(list, k, k + Len(block) - 1) = block

-----------------------------------------------------------------------------
\* C14.  When a call ends, apart from the entries that went through the
\* pending-newline slot, the request list is the setup requests followed
\* by the handlers' lists of the processed elements in source order, and
\* each handler's list is in the request list as one contiguous block in
\* its own order; a returned list is this request list.

C14_SourceOrder ==
  (WellFormed(source) /\ pc = "done") =>
    /\ WithoutSlotEntries(requests) = SetupRequests(source) \o Blocks(i)
    /\ \A j \in 1..i : \E k \in 1..(Len(requests) + 1) :
         IsBlockAt(requests, k, Block(j))
    /\ Returned => result.value = requests

C14_Witness ==
  /\ Returned
  /\ call = 1
  /\ Len(sourceContent) = 3
  /\ ReturnsNewlineRequest(sourceContent[1])
  /\ IsTable(sourceContent[2])
  /\ sourceContent[2].payload.n > 0
  /\ IsSectionBreak(sourceContent[3])
  /\ result.value[Len(result.value) - 2] = pendingOf(1)

-----------------------------------------------------------------------------
\* C15 as claimed.  A step that stores a paragraph handler's result into
\* the slot finds the slot null.

StoresIntoSlot ==
  /\ pc = "loop"
  /\ i < Len(content)
  /\ IsParagraph(structuralElement)
  /\ i' = i + 1

C15_NeverOverwritesStep ==
  StoresIntoSlot => newLineStyleUpdatesForAfterTableInsertion = Null

C15_NeverOverwrites == [][C15_NeverOverwritesStep]_vars

\* C15 as amended.  A step that stores a paragraph handler's result into
\* the slot finds the slot null exactly when no paragraph has been
\* processed before, or the last one reported null, or a table has been
\* processed since; otherwise the store replaces the value the last
\* paragraph reported, and a request replaced this way is not in the
\* request list.

C15_OverwritesStep ==
  StoresIntoSlot =>
    /\ (newLineStyleUpdatesForAfterTableInsertion = Null) <=> DrainedAfter(i)
    /\ ~DrainedAfter(i) =>
         LET last == Max(ParagraphsUpTo(i))
         IN /\ newLineStyleUpdatesForAfterTableInsertion =
                 handleParagraph(sourceContent[last]).stylesForNewlineBeforeTable
            /\ ReturnsNewlineRequest(sourceContent[last]) =>
                 pendingOf(last) \notin SeqToSet(requests')
    /\ newLineStyleUpdatesForAfterTableInsertion' =
         handleParagraph(structuralElement).stylesForNewlineBeforeTable

C15_OverwritesUnlessDrained == [][C15_OverwritesStep]_vars

C15_Witness ==
  /\ pc = "loop"
  /\ call = 1
  /\ i = 3
  /\ ReturnsNewlineRequest(sourceContent[1])
  /\ IsSectionBreak(sourceContent[2])
  /\ ReturnsNewlineRequest(sourceContent[3])
  /\ newLineStyleUpdatesForAfterTableInsertion = pendingOf(3)
  /\ pendingOf(1) \notin SeqToSet(requests)

-----------------------------------------------------------------------------
\* C16.  No entry of a returned list is undefined, and the length of the
\* list is 5 plus the lengths of the handlers' lists plus the number of
\* pending-newline requests emitted.

EmittedPending ==
  {j \in 1..Len(sourceContent) :
     /\ ReturnsNewlineRequest(sourceContent[j])
     /\ TableBeforeNextParagraph(j, Len(sourceContent))}

C16_OnlyRequests ==
  Returned =>
    /\ \A k \in 1..Len(result.value) : result.value[k] # Undefined
    /\ Len(result.value) =
         5 + Len(Blocks(Len(sourceContent))) + Cardinality(EmittedPending)

-----------------------------------------------------------------------------
\* C17.  A step that processes a section break or an element of another
\* kind leaves the slot as it is; a section break step appends its
\* insertion and then its style update and nothing else, a step on an
\* element of another kind appends nothing; within the loop the slot
\* changes only in a paragraph step, which stores the handler's value, or
\* in a table step, which sets it to null.

LoopStep == pc = "loop" /\ i < Len(content) /\ i' = i + 1

C17_FrameStep ==
  LoopStep =>
    /\ (IsSectionBreak(structuralElement) \/ IsOther(structuralElement)) =>
         UNCHANGED newLineStyleUpdatesForAfterTableInsertion
    /\ IsSectionBreak(structuralElement) =>
         /\ Len(requests') = Len(requests) + 2
         /\ SubSeq(requests', 1, Len(requests)) = requests
         /\ requests'[Len(requests) + 1].op = "insertSectionBreak"
         /\ requests'[Len(requests) + 2].op = "updateSectionStyle"
    /\ IsOther(structuralElement) => UNCHANGED requests
    /\ (newLineStyleUpdatesForAfterTableInsertion' #
          newLineStyleUpdatesForAfterTableInsertion) =>
         \/ /\ IsParagraph(structuralElement)
            /\ newLineStyleUpdatesForAfterTableInsertion' =
                 handleParagraph(structuralElement).stylesForNewlineBeforeTable
         \/ /\ IsTable(structuralElement)
            /\ newLineStyleUpdatesForAfterTableInsertion' = Null

C17_SlotFrame == [][C17_FrameStep]_vars

C17_Witness ==
  /\ pc = "loop"
  /\ call = 1
  /\ i = 3
  /\ ReturnsNewlineRequest(sourceContent[1])
  /\ IsSectionBreak(sourceContent[2])
  /\ IsOther(sourceContent[3])
  /\ newLineStyleUpdatesForAfterTableInsertion = pendingOf(1)
  /\ Len(requests) = 5 + sourceContent[1].payload.n + 2

====
